---- MODULE Spec2Model ----
(***************************************************************************)
(* Model of the county cache-and-fetch subsystem of TexasMap:              *)
(*   - the key normalizers (hooks/useCallForCountyInfo.ts and              *)
(*     services/countyDataCache.ts),                                       *)
(*   - the Cache Store  (services/countyDataCache.ts),                     *)
(*   - the Request Executor (utils/http.ts, hooks/useHttpRequest.ts),      *)
(*   - the County Fetch Orchestrator (hooks/useCallForCountyInfo.ts).      *)
(*                                                                         *)
(* A string is a sequence of chunks.  Each chunk stands for a fixed run of *)
(* characters ("Harris", "County", ",", " ", ...); no two chunk sequences  *)
(* used here spell the same string, so equality of chunk sequences is      *)
(* equality of the strings they spell.                                     *)
(***************************************************************************)
EXTENDS Integers, Sequences, FiniteSets, TLC

VARIABLES
    cache,          \* CountyDataCacheService.cache : key -> [data, timestamp]
    now,            \* Date.now()
    ticks,          \* number of clock advances so far (bounds the run)
    rawData,        \* useHttpRequest: data
    isLoading,      \* useHttpRequest: isLoading
    isError,        \* useHttpRequest: isError
    error,          \* useHttpRequest: error
    mountedRef,     \* useHttpRequest: mountedRef.current
    cacheData,      \* useCallForCountyInfo: cacheData
    isFromCache,    \* useCallForCountyInfo: isFromCache
    lastStoredRef,  \* useCallForCountyInfo: lastStoredRef.current
    inflight,       \* httpRequest calls not yet resolved: caller's name -> how many
    last,           \* what the last step did (observation of the step)
    lastSet,        \* the most recent direct cache.set still standing
    norm            \* the normalizer under test: [in, out, again, phase]

vars == << cache, now, ticks, rawData, isLoading, isError, error, mountedRef,
           cacheData, isFromCache, lastStoredRef, inflight, last,
           lastSet, norm >>

hookVars == << rawData, isLoading, isError, error, mountedRef, cacheData,
               isFromCache, lastStoredRef, inflight >>

(***************************************************************************)
(* Optional values: null / undefined is the empty sequence.                *)
(***************************************************************************)
None == << >>
Some(x) == << x >>
IsSome(o) == o # << >>
The(o) == o[1]

(***************************************************************************)
(* Strings                                                                 *)
(***************************************************************************)
WS == " "

\* String.prototype.toLowerCase on one chunk
LowerChunk(c) ==
    CASE c = "Harris"  -> "harris"
      [] c = "HARRIS"  -> "harris"
      [] c = "Dallas"  -> "dallas"
      [] c = "DALLAS"  -> "dallas"
      [] c = "County"  -> "county"
      [] c = "COUNTY"  -> "county"
      [] c = "Texas"   -> "texas"
      [] c = "TEXAS"   -> "texas"
      [] c = "Nonexistent" -> "nonexistent"
      [] c = "X"       -> "x"
      [] c = "Ha"      -> "ha"
      [] OTHER         -> c

toLowerCase(s) == [i \in 1..Len(s) |-> LowerChunk(s[i])]

RECURSIVE DropLeadingWS(_)
DropLeadingWS(s) ==
    IF s # << >> /\ Head(s) = WS THEN DropLeadingWS(Tail(s)) ELSE s

RECURSIVE DropTrailingWS(_)
DropTrailingWS(s) ==
    IF s # << >> /\ s[Len(s)] = WS
    THEN DropTrailingWS(SubSeq(s, 1, Len(s) - 1))
    ELSE s

\* String.prototype.trim
trim(s) == DropTrailingWS(DropLeadingWS(s))

\* t matches  ^\s*county\s*(,\s*texas)?\s*$  case-insensitively
MatchesSuffixPattern(t) ==
    LET t1 == DropLeadingWS(t) IN
    /\ t1 # << >>
    /\ LowerChunk(Head(t1)) = "county"
    /\ LET t2 == DropLeadingWS(Tail(t1)) IN
       \/ t2 = << >>
       \/ /\ Head(t2) = ","
          /\ LET t3 == DropLeadingWS(Tail(t2)) IN
             /\ t3 # << >>
             /\ LowerChunk(Head(t3)) = "texas"
             /\ DropLeadingWS(Tail(t3)) = << >>

\* s.replace(/\s*county\s*(,\s*texas)?\s*$/i, ''): the leftmost position from
\* which the rest of the string matches is where the match starts.
ReplaceCountySuffix(s) ==
    LET starts == { i \in 1..Len(s) : MatchesSuffixPattern(SubSeq(s, i, Len(s))) }
    IN  IF starts = {} THEN s
        ELSE LET i == CHOOSE j \in starts : \A k \in starts : j <= k
             IN  SubSeq(s, 1, i - 1)

\* hooks/useCallForCountyInfo.ts normalizeCountyName
normalizeCountyName(countyName) == trim(ReplaceCountySuffix(countyName))

\* CountyDataCacheService.normalizeCountyName
Cache_normalizeCountyName(countyName) == trim(toLowerCase(countyName))

\* The key a raw name ends up under when it goes through the orchestrator:
\* normalizeCountyName, then the store's own normalization.
NormalizedKey(raw) == Cache_normalizeCountyName(normalizeCountyName(raw))

(***************************************************************************)
(* Cache Store: services/countyDataCache.ts                                *)
(***************************************************************************)
CACHE_EXPIRY_TIME == 86400000

\* isCacheValid with the boundary on the wrong side
isCacheValid_Inclusive(timestamp, t) == t - timestamp <= CACHE_EXPIRY_TIME

\* isCacheValid, read at clock value t
isCacheValid(timestamp, t) == t - timestamp < CACHE_EXPIRY_TIME

\* set leaving an entry that is already there as it is
Cache_set_KeepExisting(c, countyName, data, t) ==
    LET cacheKey == Cache_normalizeCountyName(countyName) IN
    [k \in DOMAIN c \cup {cacheKey} |->
        IF k \in DOMAIN c THEN c[k] ELSE [data |-> data, timestamp |-> t]]

\* set: this.cache[cacheKey] = { data, timestamp: Date.now() }
Cache_set(c, countyName, data, t) ==
    LET cacheKey == Cache_normalizeCountyName(countyName) IN
    [k \in DOMAIN c \cup {cacheKey} |->
        IF k = cacheKey THEN [data |-> data, timestamp |-> t] ELSE c[k]]

\* remove: delete this.cache[cacheKey]
Cache_remove(c, countyName) ==
    LET cacheKey == Cache_normalizeCountyName(countyName) IN
    [k \in DOMAIN c \ {cacheKey} |-> c[k]]

\* get: the value returned
Cache_getValue(c, countyName, t) ==
    LET cacheKey == Cache_normalizeCountyName(countyName) IN
    IF cacheKey \notin DOMAIN c THEN None
    ELSE IF isCacheValid(c[cacheKey].timestamp, t) THEN Some(c[cacheKey].data)
    ELSE None

\* get leaving an expired entry in place
Cache_getStore_NoPurge(c, countyName, t) == c

\* get: the store it leaves (an expired entry is removed)
Cache_getStore(c, countyName, t) ==
    LET cacheKey == Cache_normalizeCountyName(countyName) IN
    IF cacheKey \notin DOMAIN c THEN c
    ELSE IF isCacheValid(c[cacheKey].timestamp, t) THEN c
    ELSE Cache_remove(c, countyName)

\* has answering for valid entries only
Cache_has_ValidOnly(c, countyName) ==
    LET cacheKey == Cache_normalizeCountyName(countyName) IN
    cacheKey \in DOMAIN c /\ isCacheValid(c[cacheKey].timestamp, now)

\* has: cacheKey in this.cache
Cache_has(c, countyName) == Cache_normalizeCountyName(countyName) \in DOMAIN c

\* clear
Cache_clear == << >>

\* size
Cache_size(c) == Cardinality(DOMAIN c)

\* getStats: the names oldestEntry can end with. oldestTimestamp starts at
\* Date.now() and an entry replaces it only when strictly older, so the result
\* is the first entry, in the order of Object.values, with the least
\* timestamp, or '' when no entry is older than the call itself.
Cache_statsOldest(c, t) ==
    LET least == { k \in DOMAIN c : \A j \in DOMAIN c : c[k].timestamp <= c[j].timestamp }
    IN  IF \E k \in DOMAIN c : c[k].timestamp < t
        THEN { c[k].data.name : k \in least }
        ELSE { << >> }

\* getStats: the names newestEntry can end with. newestTimestamp starts at 0.
Cache_statsNewest(c) ==
    LET greatest == { k \in DOMAIN c : \A j \in DOMAIN c : c[k].timestamp >= c[j].timestamp }
    IN  IF \E k \in DOMAIN c : c[k].timestamp > 0
        THEN { c[k].data.name : k \in greatest }
        ELSE { << >> }

\* getStats: the objects it can return (totalSize, the length of the store's
\* JSON text, is kept as "is it positive")
Cache_getStats(c, t) ==
    IF DOMAIN c = {}
    THEN { [size |-> 0, oldestEntry |-> None, newestEntry |-> None,
            totalSizePositive |-> FALSE] }
    ELSE { [size |-> Cardinality(DOMAIN c), oldestEntry |-> Some(o),
            newestEntry |-> Some(n), totalSizePositive |-> TRUE] :
              o \in Cache_statsOldest(c, t), n \in Cache_statsNewest(c) }

\* cleanupExpired keeping an entry that is exactly CACHE_EXPIRY_TIME old
Cache_cleanupStore_KeepBoundary(c, t) ==
    [k \in { j \in DOMAIN c : isCacheValid_Inclusive(c[j].timestamp, t) } |-> c[k]]

\* cleanupExpired: the store it leaves, and the count it returns
Cache_cleanupStore(c, t) ==
    [k \in { j \in DOMAIN c : isCacheValid(c[j].timestamp, t) } |-> c[k]]

Cache_cleanupCount(c, t) == Cache_size(c) - Cache_size(Cache_cleanupStore(c, t))

(***************************************************************************)
(* Census payloads and the response parser: apis/countyInfoAPIs.ts         *)
(***************************************************************************)
DigitChunks == {"0", "1", "2", "3", "4", "5", "6", "7", "8", "9"}

DigitVal(c) ==
    CASE c = "0" -> 0 [] c = "1" -> 1 [] c = "2" -> 2 [] c = "3" -> 3
      [] c = "4" -> 4 [] c = "5" -> 5 [] c = "6" -> 6 [] c = "7" -> 7
      [] c = "8" -> 8 [] c = "9" -> 9

RECURSIVE DigitsValue(_, _)
DigitsValue(s, acc) ==
    IF s = << >> \/ Head(s) \notin DigitChunks THEN acc
    ELSE DigitsValue(Tail(s), 10 * acc + DigitVal(Head(s)))

\* parseInt(str) || 0 : leading whitespace skipped, an optional sign, then the
\* longest run of digits; NaN (no digit) and 0 both give 0.
parseIntOr0(str) ==
    LET s1   == DropLeadingWS(str)
        neg  == s1 # << >> /\ Head(s1) = "-"
        s2   == IF s1 # << >> /\ Head(s1) \in {"-", "+"} THEN Tail(s1) ELSE s1
        isNaN == s2 = << >> \/ Head(s2) \notin DigitChunks
        v    == DigitsValue(s2, 0)
    IN  IF isNaN THEN 0 ELSE IF neg THEN 0 - v ELSE v

\* TEXAS_COUNTY_FIPS (two of its 254 rows)
TEXAS_COUNTY_FIPS ==
    [k \in { <<"Harris">>, <<"Dallas">> } |->
        IF k = <<"Harris">> THEN <<"2", "0", "1">> ELSE <<"1", "1", "3">>]

Urls == { TEXAS_COUNTY_FIPS[k] : k \in DOMAIN TEXAS_COUNTY_FIPS }

\* getCountyInfo: the key found by the case-insensitive lookup, if any
getCountyInfo_found(countyName) ==
    { key \in DOMAIN TEXAS_COUNTY_FIPS : toLowerCase(key) = toLowerCase(countyName) }

\* getCountyInfo throws when no key matches
getCountyInfo_throws(countyName) == getCountyInfo_found(countyName) = {}

\* getCountyInfo: the request URL, identified by the county code in it
getCountyInfo(countyName) ==
    TEXAS_COUNTY_FIPS[CHOOSE key \in getCountyInfo_found(countyName) : TRUE]

HeaderRow ==
    << <<"NAME">>, <<"B01001_001E">>, <<"B19013_001E">>, <<"B25077_001E">>,
       <<"B08303_001E">>, <<"B15003_022E">>, <<"B25003_002E">>,
       <<"B25003_003E">>, <<"state">>, <<"county">> >>

\* The data row the Census API serves for a county code
CensusRow(url) ==
    IF url = <<"2", "0", "1">>
    THEN << <<"Harris", " ", "County", ",", " ", "Texas">>,
            <<"4", "7", "3", "1", "1", "4", "5">>, <<"7", "0">>, <<"2", "4">>,
            <<"2", "1">>, <<"9">>, <<"5", "4">>, <<"4", "6">>,
            <<"4", "8">>, <<"2", "0", "1">> >>
    ELSE << <<"Dallas", " ", "County", ",", " ", "Texas">>,
            <<"2", "6", "1", "3">>, <<"6", "5">>, <<"-">>,
            <<"2", "7">>, <<"8">>, <<"5", "0">>, <<"5", "0">>,
            <<"4", "8">>, <<"1", "1", "3">> >>

\* The `message` property of a JSON object body: absent, a string, or a value
\* of another type
NoMessage == [type |-> "absent", str |-> ""]
StringMessage(str) == [type |-> "string", str |-> str]
OtherMessage == [type |-> "number", str |-> ""]

\* A parsed response body: a JSON array of rows, a JSON object, or a text
ArrayBody(rows) == [kind |-> "array", rows |-> rows, text |-> "", message |-> NoMessage]
TextBody(text) == [kind |-> "text", rows |-> << >>, text |-> text, message |-> NoMessage]
ObjectBody(message) == [kind |-> "object", rows |-> << >>, text |-> "", message |-> message]

\* JavaScript truthiness of a body: an array or an object is truthy, "" is not
Truthy(body) == body.kind \in {"array", "object"} \/ body.text # ""

\* the record with the two median columns read from each other's position
BuildRecord_MediansSwapped(countyRow) ==
    [ name                  |-> countyRow[1],
      population            |-> parseIntOr0(countyRow[2]),
      medianHouseholdIncome |-> parseIntOr0(countyRow[4]),
      medianHomeValue       |-> parseIntOr0(countyRow[3]),
      totalCommuteTime      |-> parseIntOr0(countyRow[5]),
      bachelorsDegreePop    |-> parseIntOr0(countyRow[6]),
      ownerOccupiedHousing  |-> parseIntOr0(countyRow[7]),
      renterOccupiedHousing |-> parseIntOr0(countyRow[8]),
      stateCode             |-> countyRow[9],
      countyCode            |-> countyRow[10] ]

\* processCensusData, lines 120-131: the record built from the data row
BuildRecord(countyRow) ==
    [ name                  |-> countyRow[1],
      population            |-> parseIntOr0(countyRow[2]),
      medianHouseholdIncome |-> parseIntOr0(countyRow[3]),
      medianHomeValue       |-> parseIntOr0(countyRow[4]),
      totalCommuteTime      |-> parseIntOr0(countyRow[5]),
      bachelorsDegreePop    |-> parseIntOr0(countyRow[6]),
      ownerOccupiedHousing  |-> parseIntOr0(countyRow[7]),
      renterOccupiedHousing |-> parseIntOr0(countyRow[8]),
      stateCode             |-> countyRow[9],
      countyCode            |-> countyRow[10] ]

\* processCensusData reading row 0 and asking for one row only
processCensusData_FirstRow(data) ==
    IF data.kind # "array" \/ Len(data.rows) < 1 THEN None
    ELSE LET countyRow == data.rows[1] IN
         IF Len(countyRow) < 10 THEN None ELSE Some(BuildRecord(countyRow))

\* processCensusData; a text body has no row of 10 columns at index 1
processCensusData(data) ==
    IF data.kind # "array" \/ Len(data.rows) < 2 THEN None
    ELSE LET countyRow == data.rows[2] IN
         IF Len(countyRow) < 10 THEN None ELSE Some(BuildRecord(countyRow))

\* The records the API can yield
Records == { The(processCensusData(ArrayBody(<<HeaderRow, CensusRow(u)>>))) : u \in Urls }

(***************************************************************************)
(* Request Executor: utils/http.ts httpRequest                             *)
(***************************************************************************)
\* What fetch() and the reading of the body do with a request: one of them
\* throws a value (an Error, a string, or something else; `status` is that of
\* the response whose body could not be read, 0 when fetch itself threw), or
\* they yield a response whose body has been read as JSON or as text.
Throws(thrown, message, status) ==
    [kind |-> "throw", thrown |-> thrown, message |-> message, status |-> status,
     statusText |-> "", body |-> TextBody("")]
FetchThrows(message) == Throws("Error", message, 0)
FetchResponds(status, statusText, body) ==
    [kind |-> "response", thrown |-> "", message |-> "", status |-> status,
     statusText |-> statusText, body |-> body]

\* response.ok
ResponseOk(o) == o.status >= 200 /\ o.status <= 299

\* httpRequest's catch block keeping the status of the response it had
httpRequest_catch_KeepStatus(o) ==
    [error |-> Some(IF o.thrown \in {"Error", "string"} THEN o.message
                    ELSE "An unknown network error occurred."),
     status |-> o.status, ok |-> FALSE, data |-> None]

\* httpRequest, lines 143-157: the catch block
httpRequest_catch(o) ==
    [error |-> Some(IF o.thrown \in {"Error", "string"} THEN o.message
                    ELSE "An unknown network error occurred."),
     status |-> 0, ok |-> FALSE, data |-> None]

\* errorMessage preferring the status text to the text body
httpRequest_errorMessage_StatusTextFirst(o) ==
    LET extractedErrorMessage ==
            IF o.body.kind = "object" /\ o.body.message.type = "string"
            THEN o.body.message.str ELSE ""
    IN  IF extractedErrorMessage # "" THEN extractedErrorMessage
        ELSE IF o.statusText # "" THEN o.statusText
        ELSE IF o.body.kind = "text" /\ o.body.text # "" THEN o.body.text
        ELSE "Request failed with status " \o ToString(o.status)

\* httpRequest, lines 117-129: the error message of a non-ok response
httpRequest_errorMessage(o) ==
    LET extractedErrorMessage ==
            IF o.body.kind = "object" /\ o.body.message.type = "string"
            THEN o.body.message.str ELSE ""
    IN  IF extractedErrorMessage # "" THEN extractedErrorMessage
        ELSE IF o.body.kind = "text" /\ o.body.text # "" THEN o.body.text
        ELSE IF o.statusText # "" THEN o.statusText
        ELSE "Request failed with status " \o ToString(o.status)

\* The ApiResponse httpRequest resolves to
httpRequest(o) ==
    IF o.kind = "throw" THEN httpRequest_catch(o)
    ELSE IF ~ResponseOk(o)
    THEN [error |-> Some(httpRequest_errorMessage(o)), status |-> o.status,
          ok |-> FALSE, data |-> Some(o.body)]
    ELSE [error |-> None, status |-> o.status, ok |-> TRUE, data |-> Some(o.body)]

\* What the network can do with a request for `url`
Outcomes(url) ==
    { FetchThrows("Failed to fetch"),
      FetchThrows(""),
      FetchResponds(200, "OK", ArrayBody(<<HeaderRow, CensusRow(url)>>)),
      FetchResponds(200, "OK", ArrayBody(<<HeaderRow>>)),
      FetchResponds(500, "Internal Server Error", TextBody("")) }

(***************************************************************************)
(* County Fetch Orchestrator: hooks/useCallForCountyInfo.ts                *)
(***************************************************************************)
MaxInflight == 2
MaxTicks == 2

\* 1 minute and 23 h 59 min, in milliseconds
TickSteps == { 60 * 1000, (23 * 60 + 59) * 60 * 1000 }

RECURSIVE SumOver(_, _)
SumOver(f, S) ==
    IF S = {} THEN 0
    ELSE LET u == CHOOSE x \in S : TRUE IN f[u] + SumOver(f, S \ {u})

InflightCount == SumOver(inflight, DOMAIN inflight)

\* const processedData = rawData ? processCensusData(rawData) : null
processedDataOf(rd) ==
    IF IsSome(rd) /\ Truthy(The(rd)) THEN processCensusData(The(rd)) ELSE None

\* The store-on-render block, given processedData `pd`: is the record written
\* by this render?
RenderStores(pd, fromCache, loading, err, ref) ==
    /\ IsSome(pd)
    /\ ~fromCache /\ ~loading /\ ~err
    /\ ref # Some(normalizeCountyName(The(pd).name))

\* The store-on-render block: lastStoredRef.current after the render
RenderRef(pd, fromCache, loading, err, ref) ==
    IF RenderStores(pd, fromCache, loading, err, ref)
    THEN Some(normalizeCountyName(The(pd).name))
    ELSE ref

\* The store-on-render block: the Cache Store after the render
RenderCache(pd, fromCache, loading, err, ref, c, t) ==
    IF RenderStores(pd, fromCache, loading, err, ref)
    THEN Cache_set(c, normalizeCountyName(The(pd).name), The(pd), t)
    ELSE c

\* The returned surface
processedData == processedDataOf(rawData)
finalData == IF isFromCache THEN cacheData ELSE processedData

\* isLoading returned as the request hook has it
Surface_isLoading_Raw == isLoading

Surface_isLoading == IF isFromCache THEN FALSE ELSE isLoading

\* The observation a step leaves in `last`
Obs(op, arg, ret, writes, net, threw, resp, count) ==
    [op |-> op, arg |-> arg, ret |-> ret, writes |-> writes, net |-> net,
     threw |-> threw, resp |-> resp, count |-> count]

RawNames ==
    { <<"HARRIS", " ", "COUNTY">>,
      <<"Dallas", " ", "County", ",", " ", "Texas">>,
      <<"Nonexistent">> }

\* The names for which getCountyInfo builds a URL
KnownNames == { n \in RawNames : ~getCountyInfo_throws(normalizeCountyName(n)) }

NoNorm == [in |-> << >>, out |-> << >>, again |-> << >>, phase |-> "off"]

Init ==
    /\ cache = << >>
    /\ now = CACHE_EXPIRY_TIME
    /\ ticks = 0
    /\ rawData = None
    /\ isLoading = FALSE
    /\ isError = FALSE
    /\ error = None
    /\ mountedRef = TRUE
    /\ cacheData = None
    /\ isFromCache = FALSE
    /\ lastStoredRef = None
    /\ inflight = [n \in KnownNames |-> 0]
    /\ last = Obs("init", << >>, None, 0, 0, FALSE, None, 0)
    /\ lastSet = None
    /\ norm = NoNorm

\* The render that follows a step: the component function runs again with the
\* state the step left, and its store block acts on the Cache Store `c` and
\* on the ref value `ref` the step left.
RenderAfter(c, ref, op, arg, ret, net, threw, resp) ==
    LET pd == processedDataOf(rawData')
        stores == RenderStores(pd, isFromCache', isLoading', isError', ref)
    IN
    /\ cache' = RenderCache(pd, isFromCache', isLoading', isError', ref, c, now)
    /\ lastStoredRef' = RenderRef(pd, isFromCache', isLoading', isError', ref)
    /\ last' = Obs(op, arg, ret, IF stores THEN 1 ELSE 0, net, threw, resp, 0)

\* No render follows the step (nothing the component renders from changed, or
\* the component is unmounted).
NoRender(c, ref, op, arg, ret, net, threw, resp) ==
    /\ cache' = c
    /\ lastStoredRef' = ref
    /\ last' = Obs(op, arg, ret, 0, net, threw, resp, 0)

StateChanged ==
    << rawData', isLoading', isError', error', cacheData', isFromCache' >>
        # << rawData, isLoading, isError, error, cacheData, isFromCache >>

\* `fresh`: a setter was given a newly built object, which is a change even
\* when it equals the old value
Finish(fresh, c, ref, op, arg, ret, net, threw, resp) ==
    IF mountedRef /\ (fresh \/ StateChanged)
    THEN RenderAfter(c, ref, op, arg, ret, net, threw, resp)
    ELSE NoRender(c, ref, op, arg, ret, net, threw, resp)

\* callForCountyInfo({countyName}), up to its await
Fetch(countyName) ==
    LET normalizedCountyName == normalizeCountyName(countyName)
        cachedData == Cache_getValue(cache, normalizedCountyName, now)
        c1 == Cache_getStore(cache, normalizedCountyName, now)
    IN
    /\ UNCHANGED << now, ticks, mountedRef, lastSet, norm >>
    /\ IF IsSome(cachedData)
       THEN \* cache hit
            /\ cacheData' = IF mountedRef THEN cachedData ELSE cacheData
            /\ isFromCache' = IF mountedRef THEN TRUE ELSE isFromCache
            /\ UNCHANGED << rawData, isLoading, isError, error, inflight >>
            /\ Finish(FALSE, c1, lastStoredRef, "fetch", countyName, cachedData, 0, FALSE, None)
       ELSE \* cache miss
            /\ cacheData' = IF mountedRef THEN None ELSE cacheData
            /\ isFromCache' = IF mountedRef THEN FALSE ELSE isFromCache
            /\ IF getCountyInfo_throws(normalizedCountyName)
               THEN /\ UNCHANGED << rawData, isLoading, isError, error, inflight >>
                    /\ Finish(FALSE, c1, None, "fetch", countyName, None, 0, TRUE, None)
               ELSE IF ~mountedRef
               THEN \* execute returns at once: "Component unmounted"
                    /\ UNCHANGED << rawData, isLoading, isError, error, inflight >>
                    /\ Finish(FALSE, c1, None, "fetch", countyName, None, 0, FALSE, None)
               ELSE LET requestUrl == getCountyInfo(normalizedCountyName) IN
                    /\ InflightCount < MaxInflight
                    /\ isLoading' = TRUE
                    /\ isError' = FALSE
                    /\ error' = None
                    /\ rawData' = rawData
                    /\ requestUrl \in Urls
                    /\ inflight' = [inflight EXCEPT ![countyName] = @ + 1]
                    /\ Finish(FALSE, c1, None, "fetch", countyName, None, 1, FALSE, None)

\* execute leaving isError false whatever the response
execute_isError_Never(response) == FALSE

\* execute, lines 254-259: isError after the response
execute_isError(response) == ~response.ok

\* execute passing response.error on without the 'Request failed' fallback
execute_error_Raw(response) ==
    IF response.ok THEN None ELSE response.error

\* execute, lines 254-259: error after the response
execute_error(response) ==
    IF response.ok THEN None
    ELSE IF IsSome(response.error) /\ The(response.error) # ""
         THEN response.error ELSE Some("Request failed")

\* execute never updating the state after its await
execute_stillMounted_Never == FALSE

\* execute updating the state without looking at mountedRef
execute_stillMounted_Unchecked == TRUE

\* execute, lines 252 and 277: if (mountedRef.current)
execute_stillMounted == mountedRef

\* httpRequest resolves for a call made for `countyName`, and execute resumes
\* after its await
Respond(countyName, o) ==
    LET response == httpRequest(o) IN
    /\ inflight[countyName] > 0
    /\ inflight' = [inflight EXCEPT ![countyName] = @ - 1]
    /\ UNCHANGED << now, ticks, mountedRef, lastSet, norm, cacheData, isFromCache >>
    /\ IF execute_stillMounted
       THEN /\ rawData' = response.data
            /\ isError' = execute_isError(response)
            /\ error' = execute_error(response)
            /\ isLoading' = FALSE
       ELSE UNCHANGED << rawData, isError, error, isLoading >>
    /\ Finish(IsSome(response.data) /\ The(response.data).kind = "array",
              cache, lastStoredRef, "respond", countyName, None, 0, FALSE,
              Some(response))

\* The component renders again for a reason of its own (its parent's state,
\* the selection state kept beside this hook)
Rerender ==
    /\ mountedRef
    /\ UNCHANGED << now, ticks, mountedRef, lastSet, norm, rawData, isLoading,
                    isError, error, cacheData, isFromCache, inflight >>
    /\ RenderAfter(cache, lastStoredRef, "render", << >>, None, 0, FALSE, None)

\* The component is torn down: the cleanup of useHttpRequest's effect
Unmount ==
    /\ mountedRef
    /\ mountedRef' = FALSE
    /\ last' = Obs("unmount", << >>, None, 0, 0, FALSE, None, 0)
    /\ UNCHANGED << cache, now, ticks, lastSet, norm, rawData, isLoading, isError,
                    error, cacheData, isFromCache, lastStoredRef, inflight >>

\* Time passes
Tick(d) ==
    /\ ticks < MaxTicks
    /\ ticks' = ticks + 1
    /\ now' = now + d
    /\ last' = Obs("tick", << >>, None, 0, 0, FALSE, None, 0)
    /\ UNCHANGED << cache, lastSet, norm >>
    /\ UNCHANGED hookVars

\* clearCache of the returned surface
ClearCache ==
    /\ cache' = Cache_clear
    /\ last' = Obs("clear", << >>, None, 0, 0, FALSE, None, 0)
    /\ lastSet' = None
    /\ UNCHANGED << now, ticks, norm >>
    /\ UNCHANGED hookVars

\* cleanupExpiredCache of the returned surface
CleanupExpired ==
    /\ cache' = Cache_cleanupStore(cache, now)
    /\ last' = Obs("cleanup", << >>, None, 0, 0, FALSE, None, Cache_cleanupCount(cache, now))
    /\ lastSet' = IF IsSome(lastSet) /\ ~isCacheValid(The(lastSet).at, now)
                  THEN None ELSE lastSet
    /\ UNCHANGED << now, ticks, norm >>
    /\ UNCHANGED hookVars

Next ==
    \/ \E countyName \in RawNames : Fetch(countyName)
    \/ \E countyName \in KnownNames :
          \E o \in Outcomes(getCountyInfo(normalizeCountyName(countyName))) :
             Respond(countyName, o)
    \/ Rerender
    \/ \E d \in TickSteps : Tick(d)
    \/ ClearCache
    \/ CleanupExpired

Spec == Init /\ [][Next]_vars

\* The orchestrator alone: no eviction, and no time passes
NextFetch ==
    \/ \E countyName \in RawNames : Fetch(countyName)
    \/ \E countyName \in KnownNames :
          \E o \in Outcomes(getCountyInfo(normalizeCountyName(countyName))) :
             Respond(countyName, o)
    \/ Rerender

SpecFetch == Init /\ [][NextFetch]_vars

\* The same, every request sent being answered in the end: weak fairness of
\* the Respond steps of each name, which are enabled exactly when
\* inflight[countyName] > 0 (WF_vars(A) is []<>~ENABLED <<A>>_vars \/ []<><<A>>_vars)
SpecFetchLive ==
    /\ Init
    /\ [][NextFetch]_vars
    /\ \A countyName \in KnownNames :
          \/ []<>(inflight[countyName] = 0)
          \/ []<><<\E o \in Outcomes(getCountyInfo(normalizeCountyName(countyName))) :
                      Respond(countyName, o)>>_vars

(***************************************************************************)
(* The Cache Store driven directly through its public methods              *)
(***************************************************************************)
CacheRawNames ==
    { <<"Harris">>, <<" ", "HARRIS", " ">>, <<"Harris", " ", "County">> }

\* countyDataCache.set(countyName, data)
CacheSet(countyName, data) ==
    /\ cache' = Cache_set(cache, countyName, data, now)
    /\ last' = Obs("set", countyName, Some(data), 1, 0, FALSE, None, 0)
    /\ lastSet' = Some([raw |-> countyName, data |-> data, at |-> now])
    /\ UNCHANGED << now, ticks, norm >>
    /\ UNCHANGED hookVars

\* countyDataCache.get(countyName)
CacheGet(countyName) ==
    /\ cache' = Cache_getStore(cache, countyName, now)
    /\ last' = Obs("get", countyName, Cache_getValue(cache, countyName, now),
                   0, 0, FALSE, None, 0)
    /\ UNCHANGED << now, ticks, norm, lastSet >>
    /\ UNCHANGED hookVars

\* countyDataCache.remove(countyName)
CacheRemove(countyName) ==
    /\ cache' = Cache_remove(cache, countyName)
    /\ last' = Obs("remove", countyName, None, 0, 0, FALSE, None, 0)
    /\ lastSet' = None
    /\ UNCHANGED << now, ticks, norm >>
    /\ UNCHANGED hookVars

\* countyDataCache.has(countyName)
CacheHas(countyName) ==
    /\ last' = Obs("has", countyName, Some(Cache_has(cache, countyName)),
                   0, 0, FALSE, None, 0)
    /\ UNCHANGED << cache, now, ticks, norm, lastSet >>
    /\ UNCHANGED hookVars

\* countyDataCache.size()
CacheSize ==
    /\ last' = Obs("size", << >>, None, 0, 0, FALSE, None, Cache_size(cache))
    /\ UNCHANGED << cache, now, ticks, norm, lastSet >>
    /\ UNCHANGED hookVars

\* countyDataCache.getStats()
CacheStats ==
    /\ \E stats \in Cache_getStats(cache, now) :
          last' = Obs("stats", << >>, Some(stats), 0, 0, FALSE, None, 0)
    /\ UNCHANGED << cache, now, ticks, norm, lastSet >>
    /\ UNCHANGED hookVars

NextCache ==
    \/ \E countyName \in CacheRawNames : \E data \in Records : CacheSet(countyName, data)
    \/ \E countyName \in CacheRawNames : CacheGet(countyName)
    \/ \E countyName \in CacheRawNames : CacheRemove(countyName)
    \/ \E countyName \in CacheRawNames : CacheHas(countyName)
    \/ CacheSize
    \/ CacheStats
    \/ ClearCache
    \/ CleanupExpired
    \/ \E d \in TickSteps : Tick(d)

SpecCache == Init /\ [][NextCache]_vars

(***************************************************************************)
(* The key normalizer applied to bounded inputs                            *)
(***************************************************************************)
MaxLen == 5

NormAlphabet == { "X", " ", "County", "county", ",", "Texas" }

NormInputs == UNION { [1..n -> NormAlphabet] : n \in 0..MaxLen }

InitNorm ==
    /\ cache = << >>
    /\ now = CACHE_EXPIRY_TIME
    /\ ticks = 0
    /\ rawData = None
    /\ isLoading = FALSE
    /\ isError = FALSE
    /\ error = None
    /\ mountedRef = TRUE
    /\ cacheData = None
    /\ isFromCache = FALSE
    /\ lastStoredRef = None
    /\ inflight = [n \in KnownNames |-> 0]
    /\ last = Obs("init", << >>, None, 0, 0, FALSE, None, 0)
    /\ lastSet = None
    /\ \E x \in NormInputs :
          norm = [in |-> x, out |-> << >>, again |-> << >>, phase |-> "in"]

\* the key of the raw input
Normalize ==
    /\ norm.phase = "in"
    /\ norm' = [norm EXCEPT !.out = NormalizedKey(norm.in), !.phase = "out"]
    /\ UNCHANGED << cache, now, ticks, last, lastSet >>
    /\ UNCHANGED hookVars

\* the key of that key
NormalizeAgain ==
    /\ norm.phase = "out"
    /\ norm' = [norm EXCEPT !.again = NormalizedKey(norm.out), !.phase = "done"]
    /\ UNCHANGED << cache, now, ticks, last, lastSet >>
    /\ UNCHANGED hookVars

NextNorm == Normalize \/ NormalizeAgain

SpecNorm == InitNorm /\ [][NextNorm]_vars


(***************************************************************************)
(* The orchestrator fetching one county under several spellings            *)
(***************************************************************************)
VariantNames ==
    { <<"Harris">>, <<"Ha", " ", "rris", " ">>, <<"HARRIS", " ", "COUNTY">> }

\* The spellings for which getCountyInfo builds a URL
VariantKnownNames ==
    { n \in VariantNames : ~getCountyInfo_throws(normalizeCountyName(n)) }

InitVariants ==
    /\ cache = << >>
    /\ now = CACHE_EXPIRY_TIME
    /\ ticks = 0
    /\ rawData = None
    /\ isLoading = FALSE
    /\ isError = FALSE
    /\ error = None
    /\ mountedRef = TRUE
    /\ cacheData = None
    /\ isFromCache = FALSE
    /\ lastStoredRef = None
    /\ inflight = [n \in VariantKnownNames |-> 0]
    /\ last = Obs("init", << >>, None, 0, 0, FALSE, None, 0)
    /\ lastSet = None
    /\ norm = NoNorm

NextVariants ==
    \/ \E countyName \in VariantNames : Fetch(countyName)
    \/ \E countyName \in VariantKnownNames :
          \E o \in Outcomes(getCountyInfo(normalizeCountyName(countyName))) :
             Respond(countyName, o)
    \/ Rerender

SpecVariants == InitVariants /\ [][NextVariants]_vars


(***************************************************************************)
(* The Request Executor applied to bounded transport outcomes              *)
(***************************************************************************)
HttpStatuses == { 200, 204, 299, 300, 404, 500 }
HttpStatusTexts == { "", "Not Found" }
HttpBodies ==
    { TextBody(""), TextBody("county unavailable"),
      ObjectBody(NoMessage), ObjectBody(StringMessage("bad county")),
      ObjectBody(StringMessage("")), ObjectBody(OtherMessage),
      ArrayBody(<< >>), ArrayBody(<<HeaderRow>>) }

\* a value thrown by fetch() (status 0) or by response.json() / response.text()
HttpThrows ==
    { Throws(thrown, message, status) :
        thrown \in {"Error", "string", "other"},
        message \in {"Failed to fetch", ""},
        status \in {0, 200, 500} }

HttpOutcomes ==
    HttpThrows \cup
    { FetchResponds(status, statusText, body) :
        status \in HttpStatuses, statusText \in HttpStatusTexts, body \in HttpBodies }

\* await httpRequest(url, options), the transport doing `o`
HttpRequest(o) ==
    /\ last.op = "init"
    /\ last' = Obs("httpRequest", o, None, 0, 1, FALSE, Some(httpRequest(o)), 0)
    /\ UNCHANGED << cache, now, ticks, lastSet, norm >>
    /\ UNCHANGED hookVars

NextHttp == \E o \in HttpOutcomes : HttpRequest(o)

SpecHttp == Init /\ [][NextHttp]_vars


(***************************************************************************)
(* The orchestrator with the teardown of its component                     *)
(***************************************************************************)
NextTeardown ==
    \/ \E countyName \in RawNames : Fetch(countyName)
    \/ \E countyName \in KnownNames :
          \E o \in Outcomes(getCountyInfo(normalizeCountyName(countyName))) :
             Respond(countyName, o)
    \/ Rerender
    \/ Unmount

SpecTeardown == Init /\ [][NextTeardown]_vars


(***************************************************************************)
(* The response parser applied to bounded payloads                         *)
(***************************************************************************)
MaxRows == 3

\* A data row whose numeric columns are not all plain integers
OddRow ==
    << <<"X">>, <<" ", "4", "2">>, <<"1", "2", "X">>, <<"-", "5">>, << >>,
       <<"X">>, <<"+", "7">>, <<"0">>, <<"4", "8">>, <<"0", "0", "1">> >>

\* A data row of nine columns, and one of eleven
ShortRow == SubSeq(CensusRow(<<"2", "0", "1">>), 1, 9)
LongRow == Append(CensusRow(<<"2", "0", "1">>), <<"X">>)

ParseRows ==
    { HeaderRow, CensusRow(<<"2", "0", "1">>), CensusRow(<<"1", "1", "3">>),
      OddRow, ShortRow, LongRow }

ParsePayloads ==
    { ArrayBody(rows) : rows \in UNION { [1..n -> ParseRows] : n \in 0..MaxRows } }
    \cup { TextBody("county unavailable"), ObjectBody(NoMessage) }

\* processCensusData(data)
Parse(data) ==
    /\ last.op = "init"
    /\ last' = Obs("parse", data, processCensusData(data), 0, 0, FALSE, None, 0)
    /\ UNCHANGED << cache, now, ticks, lastSet, norm >>
    /\ UNCHANGED hookVars

NextParse == \E data \in ParsePayloads : Parse(data)

SpecParse == Init /\ [][NextParse]_vars


(***************************************************************************)
(* Two overlapping fetches of two counties, every request succeeding       *)
(***************************************************************************)
\* The well-shaped 200 response for `url`
GoodOutcome(url) == FetchResponds(200, "OK", ArrayBody(<<HeaderRow, CensusRow(url)>>))

\* The state after callForCountyInfo for each known county, on a fresh
\* orchestrator: both missed, both requests are in flight
InitOverlap ==
    /\ cache = << >>
    /\ now = CACHE_EXPIRY_TIME
    /\ ticks = 0
    /\ rawData = None
    /\ isLoading = TRUE
    /\ isError = FALSE
    /\ error = None
    /\ mountedRef = TRUE
    /\ cacheData = None
    /\ isFromCache = FALSE
    /\ lastStoredRef = None
    /\ inflight = [n \in KnownNames |-> 1]
    /\ \E n \in KnownNames : last = Obs("fetch", n, None, 0, 1, FALSE, None, 0)
    /\ lastSet = None
    /\ norm = NoNorm

NextOverlap ==
    \/ \E countyName \in RawNames : Fetch(countyName)
    \/ \E countyName \in KnownNames :
          Respond(countyName, GoodOutcome(getCountyInfo(normalizeCountyName(countyName))))
    \/ Rerender

SpecOverlap == InitOverlap /\ [][NextOverlap]_vars


(***************************************************************************)
(* Two overlapping fetches whose responses race                            *)
(***************************************************************************)
OlderCall == <<"HARRIS", " ", "COUNTY">>
LatestCall == <<"Dallas", " ", "County", ",", " ", "Texas">>

\* The state after callForCountyInfo(OlderCall) and then
\* callForCountyInfo(LatestCall) on a fresh orchestrator: both missed, both
\* requests are in flight, and no call is made afterwards
InitRace ==
    /\ cache = << >>
    /\ now = CACHE_EXPIRY_TIME
    /\ ticks = 0
    /\ rawData = None
    /\ isLoading = TRUE
    /\ isError = FALSE
    /\ error = None
    /\ mountedRef = TRUE
    /\ cacheData = None
    /\ isFromCache = FALSE
    /\ lastStoredRef = None
    /\ inflight = [n \in KnownNames |-> 1]
    /\ last = Obs("fetch", LatestCall, None, 0, 1, FALSE, None, 0)
    /\ lastSet = None
    /\ norm = NoNorm

NextRace ==
    \/ \E countyName \in KnownNames :
          \E o \in Outcomes(getCountyInfo(normalizeCountyName(countyName))) :
             Respond(countyName, o)
    \/ Rerender
    \/ \E d \in TickSteps : Tick(d)

SpecRace == InitRace /\ [][NextRace]_vars

(***************************************************************************)
(* Claims                                                                  *)
(***************************************************************************)

\* The key described for the store: lowercase, trimmed, trailing
\* "county" / "county, texas" stripped.
IsNormalized(k) == k = toLowerCase(k) /\ k = trim(k) /\ k = ReplaceCountySuffix(k)

\* C1: for raw spellings s1, s2 that normalize (lowercase, trim, strip the
\* suffix) to the same key, cache.get(s1) after cache.set(s2, r), before the
\* entry expires, returns r; and every key the store holds is lowercase,
\* trimmed and suffix-stripped.
C1_KeyEquivalence ==
    /\ ( /\ last.op = "get"
         /\ IsSome(lastSet)
         /\ NormalizedKey(The(lastSet).raw) = NormalizedKey(last.arg)
         /\ now - The(lastSet).at < CACHE_EXPIRY_TIME )
       => last.ret = Some(The(lastSet).data)
    /\ \A k \in DOMAIN cache : IsNormalized(k)

\* C2: an entry stored at time t is returned by get at every time with
\* now - t < 24h and is absent at every time with now - t >= 24h.
C2_ExpiryBoundary ==
    ( /\ last.op = "get"
      /\ IsSome(lastSet)
      /\ Cache_normalizeCountyName(The(lastSet).raw) = Cache_normalizeCountyName(last.arg) )
    => IF now - The(lastSet).at < CACHE_EXPIRY_TIME
       THEN last.ret = Some(The(lastSet).data)
       ELSE last.ret = None

\* C2 witness: a get exactly 24h after the set, finding the entry absent
C2_Witness ==
    /\ last.op = "get"
    /\ IsSome(lastSet)
    /\ Cache_normalizeCountyName(The(lastSet).raw) = Cache_normalizeCountyName(last.arg)
    /\ now - The(lastSet).at = CACHE_EXPIRY_TIME
    /\ last.ret = None

\* The last step delivered a network response
Responded == last.op = "respond" /\ IsSome(last.resp)

\* The body of that response has the expected shape: a JSON array whose row 1
\* has at least 10 columns
WellShaped(body) ==
    /\ body.kind = "array"
    /\ Len(body.rows) >= 2
    /\ Len(body.rows[2]) >= 10

\* The last step delivered a successful, well-shaped response
GoodRespond ==
    /\ Responded
    /\ The(last.resp).ok
    /\ WellShaped(The(The(last.resp).data))

\* The last step delivered a successful response of the wrong shape
MalformedRespond ==
    /\ Responded
    /\ The(last.resp).ok
    /\ ~WellShaped(The(The(last.resp).data))

\* The last step delivered a failure (ok = false)
FailedRespond == Responded /\ ~The(last.resp).ok

\* The record in the response just delivered
RespondedRecord == BuildRecord(The(The(last.resp).data).rows[2])

\* C3: when fetchCounty finds a valid entry for the normalized name, that call
\* does not invoke the Request Executor, and after it the surface has
\* isFromCache = true, isLoading = false and data = the cached record.
C3_CacheHitNoIO ==
    [][ LET k == NormalizedKey(last'.arg) IN
        ( /\ last'.op = "fetch"
          /\ k \in DOMAIN cache
          /\ now - cache[k].timestamp < CACHE_EXPIRY_TIME )
        => ( /\ last'.net = 0
             /\ isFromCache'
             /\ ~Surface_isLoading'
             /\ finalData' = Some(cache[k].data)
             /\ inflight' = inflight ) ]_vars

\* C3 witness: a cache hit served while a request is still in flight
C3_Witness ==
    /\ last.op = "fetch"
    /\ IsSome(last.ret)
    /\ isLoading
    /\ InflightCount > 0

\* C4: after a cache-miss fetch of name n has settled with a successful,
\* well-shaped response, a second fetch of n issued immediately afterwards is
\* a cache hit: isFromCache = true, no network call, the same record.
C4_RepeatFetchIsHit ==
    [][ ( /\ GoodRespond
          /\ last'.op = "fetch"
          /\ last'.arg = last.arg )
        => ( /\ IsSome(last'.ret)
             /\ last'.net = 0
             /\ isFromCache'
             /\ finalData' = Some(RespondedRecord) ) ]_vars

\* C5: a fetch of a name with no county code raises before any network call
\* and leaves the Cache Store unchanged (nothing written or re-written), also
\* when the component renders next.
C5_UnknownCountyLeavesCache ==
    [][ /\ (last'.op = "fetch" /\ last'.threw)
           => (last'.net = 0 /\ last'.writes = 0 /\ cache' = cache)
        /\ (last.op = "fetch" /\ last.threw /\ last'.op = "render")
           => (last'.writes = 0 /\ cache' = cache) ]_vars

C8_SuccessfulMissIsCached ==
    GoodRespond =>
        LET k == NormalizedKey(RespondedRecord.name) IN
        /\ k \in DOMAIN cache
        /\ cache[k].data = RespondedRecord
        /\ ~isFromCache

\* C9: the store is written only by the delivery of a successful network
\* response, and at most once by it (a duplicate response for the same name
\* may be absorbed); no other step (a re-render, a cache hit, a fetch that
\* fails before the network) writes a record again or refreshes its storedAt.
C9_StoreOncePerResponse ==
    /\ GoodRespond => last.writes <= 1
    /\ ~GoodRespond => last.writes = 0

\* C10: normalize(normalize(x)) = normalize(x) for every input x.
C10_Idempotent == norm.phase = "done" => norm.again = norm.out

\* C11: once "Harris" has been fetched and cached, a fetch of "Ha rris " and a
\* fetch of "HARRIS COUNTY" are each a cache hit on the entry of "Harris": the
\* stored record is returned, no error is raised, no request is made and no
\* entry is created.
C11_SpellingVariantsShareEntry ==
    [][ LET k == NormalizedKey(<<"Harris">>) IN
        ( /\ k \in DOMAIN cache
          /\ last'.op = "fetch"
          /\ last'.arg \in { <<"Ha", " ", "rris", " ">>, <<"HARRIS", " ", "COUNTY">> } )
        => ( /\ last'.ret = Some(cache[k].data)
             /\ ~last'.threw
             /\ last'.net = 0
             /\ DOMAIN cache' = DOMAIN cache ) ]_vars

\* C12: cleanupExpired removes exactly the entries of age >= 24h, leaves every
\* younger entry as it was, returns the number of entries it removed, and a
\* second call directly after it returns 0 and changes nothing.
C12_CleanupExpired ==
    [][ last'.op = "cleanup" =>
        ( /\ DOMAIN cache' =
                { k \in DOMAIN cache : now - cache[k].timestamp < CACHE_EXPIRY_TIME }
          /\ \A k \in DOMAIN cache' : cache'[k] = cache[k]
          /\ last'.count = Cardinality(DOMAIN cache \ DOMAIN cache')
          /\ (last.op = "cleanup" => (last'.count = 0 /\ cache' = cache)) ) ]_vars

\* C12 witness: a cleanup that removed one entry, aged exactly 24h or more, and
\* left a younger one in the store
C12_Witness ==
    /\ last.op = "cleanup"
    /\ last.count = 1
    /\ Cache_size(cache) = 1
    /\ \A k \in DOMAIN cache : now - cache[k].timestamp < CACHE_EXPIRY_TIME

\* The last step was a call of the Request Executor; its transport outcome and
\* the envelope it resolved to
HttpCalled == last.op = "httpRequest"
HttpOutcome == last.arg
HttpResult == The(last.resp)

\* C13: the Request Executor always resolves and never raises: when the
\* transport call or the reading of the response body throws, the result is
\* {ok: false, status: 0, error: <message>} with no data, whatever status the
\* response had.
C13_ExecutorNeverRaises ==
    HttpCalled =>
        /\ ~last.threw
        /\ IsSome(last.resp)
        /\ HttpOutcome.kind = "throw" =>
              /\ ~HttpResult.ok
              /\ HttpResult.status = 0
              /\ HttpResult.data = None
              /\ IsSome(HttpResult.error)
              /\ HttpOutcome.thrown \in {"Error", "string"} =>
                    HttpResult.error = Some(HttpOutcome.message)

\* C13 witness: the body of a 200 response could not be read, and the result
\* has status 0
C13_Witness ==
    /\ HttpCalled
    /\ HttpOutcome.kind = "throw"
    /\ HttpOutcome.status = 200
    /\ HttpResult.status = 0
    /\ ~HttpResult.ok

\* The last step was a call of the Request Executor that got a non-2xx response
HttpNonOk ==
    /\ HttpCalled
    /\ HttpOutcome.kind = "response"
    /\ (HttpOutcome.status < 200 \/ HttpOutcome.status > 299)

\* C17 as stated: on a non-2xx response the result has ok = false and the
\* parsed body as data, and error is (a) the string `message` field of a JSON
\* object body, else (b) the text body if non-empty, else (c) the status
\* text, else (d) "Request failed with status N".
C17_ErrorMessagePriority ==
    HttpNonOk =>
        LET body == HttpOutcome.body IN
        /\ ~HttpResult.ok
        /\ HttpResult.data = Some(body)
        /\ HttpResult.error = Some(
              IF body.kind = "object" /\ body.message.type = "string"
              THEN body.message.str
              ELSE IF body.kind = "text" /\ body.text # "" THEN body.text
              ELSE IF HttpOutcome.statusText # "" THEN HttpOutcome.statusText
              ELSE "Request failed with status " \o ToString(HttpOutcome.status))

\* C17 as amended: the same, with (a) taken only when the `message` field is a
\* non-empty string; an empty `message` falls through to (b), (c), (d).
C17_ErrorMessagePriorityNonEmpty ==
    HttpNonOk =>
        LET body == HttpOutcome.body IN
        /\ ~HttpResult.ok
        /\ HttpResult.data = Some(body)
        /\ HttpResult.error = Some(
              IF body.kind = "object" /\ body.message.type = "string"
                 /\ body.message.str # ""
              THEN body.message.str
              ELSE IF body.kind = "text" /\ body.text # "" THEN body.text
              ELSE IF HttpOutcome.statusText # "" THEN HttpOutcome.statusText
              ELSE "Request failed with status " \o ToString(HttpOutcome.status))

\* C17 witness: a non-2xx response with a non-empty text body and a status
\* text; the text body is the error
C17_Witness ==
    /\ HttpNonOk
    /\ HttpOutcome.body.kind = "text"
    /\ HttpOutcome.body.text # ""
    /\ HttpOutcome.statusText # ""
    /\ HttpResult.error = Some(HttpOutcome.body.text)

\* C14: once the component is unmounted, the resolution of a request that was
\* in flight (success or failure) changes none of data / isLoading / isError /
\* error, writes nothing to the store and raises nothing; and a fetch made
\* after the unmount issues no network request.
C14_TeardownSafety ==
    [][ ~mountedRef =>
        ( /\ << rawData', isLoading', isError', error' >>
                = << rawData, isLoading, isError, error >>
          /\ last'.writes = 0
          /\ cache' = cache
          /\ last'.op = "respond" => ~last'.threw
          /\ last'.op = "fetch" => (last'.net = 0 /\ inflight' = inflight) ) ]_vars

\* C14 witness: a well-shaped 200 response delivered after the unmount; the
\* state is still that of the request in flight and the store is empty
C14_Witness ==
    /\ ~mountedRef
    /\ GoodRespond
    /\ isLoading
    /\ rawData = None
    /\ cache = << >>

\* The entries of the store that hold the record of the response just delivered
EntriesOfResponded == { k \in DOMAIN cache : cache[k].data.name = RespondedRecord.name }

\* C15: a fetch of a county made while an earlier fetch of it is unresolved
\* and the store has no entry for it misses and sends its own request (two
\* requests in flight); and after both have settled successfully the store
\* holds exactly one entry for that county.
C15_NoSingleFlight ==
    [][ /\ ( /\ last'.op = "fetch"
             /\ last'.arg \in KnownNames
             /\ inflight[last'.arg] >= 1
             /\ NormalizedKey(last'.arg) \notin DOMAIN cache )
           => ( /\ last'.ret = None
                /\ last'.net = 1
                /\ inflight'[last'.arg] = inflight[last'.arg] + 1 )
        /\ ( /\ GoodRespond
             /\ GoodRespond'
             /\ last'.arg = last.arg
             /\ inflight'[last'.arg] = 0 )
           => Cardinality(EntriesOfResponded') = 1 ]_vars

\* C16: get(key) on a present entry of age >= 24h deletes exactly that entry
\* and returns absent; get(key) on a missing key or on a valid entry leaves
\* the store as it was.
C16_LazyPurgeByGet ==
    [][ last'.op = "get" =>
        LET k == Cache_normalizeCountyName(last'.arg) IN
        IF k \in DOMAIN cache /\ now - cache[k].timestamp >= CACHE_EXPIRY_TIME
        THEN /\ last'.ret = None
             /\ DOMAIN cache' = DOMAIN cache \ {k}
             /\ \A j \in DOMAIN cache' : cache'[j] = cache[j]
        ELSE cache' = cache ]_vars

\* C16 witness: a get that found its entry expired and removed it, another
\* entry staying in the store
C16_Witness ==
    /\ last.op = "get"
    /\ last.ret = None
    /\ IsSome(lastSet)
    /\ Cache_normalizeCountyName(The(lastSet).raw) = Cache_normalizeCountyName(last.arg)
    /\ now - The(lastSet).at >= CACHE_EXPIRY_TIME
    /\ Cache_normalizeCountyName(last.arg) \notin DOMAIN cache
    /\ cache # << >>

\* C18: every result of the Request Executor has ok = true exactly when the
\* round trip completed with a 2xx status; when ok = true, data is the parsed
\* body and error is unset; when ok = false, error is a non-empty message.
C18_EnvelopeConsistency ==
    HttpCalled =>
        /\ HttpResult.ok <=>
              ( /\ HttpOutcome.kind = "response"
                /\ HttpOutcome.status >= 200
                /\ HttpOutcome.status <= 299 )
        /\ HttpResult.ok =>
              (HttpResult.data = Some(HttpOutcome.body) /\ HttpResult.error = None)
        /\ ~HttpResult.ok =>
              (IsSome(HttpResult.error) /\ The(HttpResult.error) # "")

\* The last step was a call of the response parser on payload last.arg
Parsed == last.op = "parse"

\* C19: the parser yields a record only for a payload of exactly 2 rows whose
\* data row has at least 10 columns; for every other shape it yields null,
\* and it never throws.
C19_ParserShapeCheck ==
    Parsed =>
        /\ ~last.threw
        /\ IsSome(last.ret) <=>
              ( /\ last.arg.kind = "array"
                /\ Len(last.arg.rows) = 2
                /\ Len(last.arg.rows[2]) >= 10 )

\* A string that is an integer: an optional sign and one or more digits
\* (whitespace around it aside)
Unsigned(s) == IF s # << >> /\ Head(s) \in {"-", "+"} THEN Tail(s) ELSE s
IsIntegerString(s) ==
    LET d == Unsigned(trim(s)) IN
    d # << >> /\ \A i \in 1..Len(d) : d[i] \in DigitChunks

\* The value of such a string
IntegerValue(s) ==
    LET t == trim(s)
        d == Unsigned(t)
        v == SumOver([i \in 1..Len(d) |-> DigitVal(d[i]) * 10 ^ (Len(d) - i)],
                     1..Len(d))
    IN  IF Head(t) = "-" THEN 0 - v ELSE v

\* A string in which no integer can be read: no digit after the whitespace and
\* the sign it starts with
HasNoInteger(s) ==
    LET d == Unsigned(DropLeadingWS(s)) IN d = << >> \/ Head(d) \notin DigitChunks

\* The numeric field v read from the string str
FieldParsed(str, v) ==
    /\ IsIntegerString(str) => v = IntegerValue(str)
    /\ HasNoInteger(str) => v = 0

\* C20: on a well-shaped payload the record is built positionally from the
\* data row (0 name, 1 population, 2 median household income, 3 median home
\* value, 4 total commute time, 5 bachelor's degree population, 6 owner
\* occupied, 7 renter occupied, 8 state code, 9 county code); a numeric field
\* is the integer value of its string, and 0 when no integer can be read.
C20_ParserFieldMapping ==
    ( /\ Parsed
      /\ last.arg.kind = "array"
      /\ Len(last.arg.rows) = 2
      /\ Len(last.arg.rows[2]) >= 10 )
    => LET row == last.arg.rows[2]
           rec == The(last.ret)
       IN  /\ IsSome(last.ret)
           /\ rec.name = row[1]
           /\ FieldParsed(row[2], rec.population)
           /\ FieldParsed(row[3], rec.medianHouseholdIncome)
           /\ FieldParsed(row[4], rec.medianHomeValue)
           /\ FieldParsed(row[5], rec.totalCommuteTime)
           /\ FieldParsed(row[6], rec.bachelorsDegreePop)
           /\ FieldParsed(row[7], rec.ownerOccupiedHousing)
           /\ FieldParsed(row[8], rec.renterOccupiedHousing)
           /\ rec.stateCode = row[9]
           /\ rec.countyCode = row[10]

\* C20 witness: a well-shaped payload whose data row has a signed integer, an
\* empty column and a column with no digit; they become -5, 0 and 0
C20_Witness ==
    /\ Parsed
    /\ last.arg.kind = "array"
    /\ Len(last.arg.rows) = 2
    /\ last.arg.rows[2] = OddRow
    /\ IsSome(last.ret)
    /\ The(last.ret).population = 42
    /\ The(last.ret).medianHomeValue = 0 - 5
    /\ The(last.ret).totalCommuteTime = 0
    /\ The(last.ret).bachelorsDegreePop = 0

\* C21: a fetch invocation goes from the cache check to CACHE_HIT (a valid
\* entry exists) or to FETCHING; FETCHING is entered only on a miss, with
\* isFromCache = false and isLoading = true; a terminal state of the network
\* path is reached only from FETCHING and has isLoading = false; and every
\* request that was sent is answered by such a terminal state, provided the
\* network resolves.  (An invocation that raises for an unknown name leaves
\* the machine after the cache check, without a network call.)
C21_FetchStateMachine ==
    /\ [][ /\ last'.op = "fetch" =>
              LET k == NormalizedKey(last'.arg)
                  valid == k \in DOMAIN cache
                           /\ now - cache[k].timestamp < CACHE_EXPIRY_TIME
              IN  /\ IsSome(last'.ret) <=> valid
                  /\ IsSome(last'.ret) =>
                        (last'.net = 0 /\ isFromCache' /\ ~Surface_isLoading')
                  /\ last'.net = 1 =>
                        ( /\ ~valid
                          /\ ~isFromCache'
                          /\ isLoading'
                          /\ Surface_isLoading'
                          /\ inflight'[last'.arg] = inflight[last'.arg] + 1 )
                  /\ last'.net \in {0, 1}
           /\ last'.op = "respond" =>
              ( /\ inflight[last'.arg] > 0
                /\ inflight'[last'.arg] = inflight[last'.arg] - 1
                /\ ~isLoading'
                /\ ~Surface_isLoading' ) ]_vars
    /\ \A n \in KnownNames :
          (inflight[n] > 0) ~>
              (last.op = "respond" /\ last.arg = n /\ ~Surface_isLoading)

\* C21 witness: a request reached PARSE_OK, with isLoading = false, while a
\* later fetch had been a cache hit in between
C21_Witness ==
    /\ GoodRespond
    /\ isFromCache
    /\ ~isLoading
    /\ InflightCount = 0

\* The record the API serves for `url`
RecordOf(url) == BuildRecord(CensusRow(url))

\* C22: two cache-miss fetches of two different counties overlap and every
\* network call succeeds with a well-shaped payload; once all have settled the
\* store holds both records, each under its own key, whatever the order of
\* the responses.
C22_DifferentCountiesIndependent ==
    InflightCount = 0 =>
        \A url \in Urls :
            LET k == NormalizedKey(RecordOf(url).name) IN
            k \in DOMAIN cache /\ cache[k].data = RecordOf(url)

\* C23: has(key) is true exactly when an entry is present under the
\* normalized key, whatever its age, and size() counts every entry present,
\* expired ones included; neither modifies the store.
C23_HasAndSizeIgnoreExpiry ==
    [][ /\ last'.op = "has" =>
              /\ last'.ret = Some(Cache_normalizeCountyName(last'.arg) \in DOMAIN cache)
              /\ cache' = cache
        /\ last'.op = "size" =>
              /\ last'.count = Cardinality(DOMAIN cache)
              /\ cache' = cache ]_vars

\* C23 witness: has answers true for an entry that is 24h old or older, which
\* get would report absent
C23_Witness ==
    LET k == Cache_normalizeCountyName(last.arg) IN
    /\ last.op = "has"
    /\ last.ret = Some(TRUE)
    /\ k \in DOMAIN cache
    /\ now - cache[k].timestamp >= CACHE_EXPIRY_TIME
    /\ Cache_getValue(cache, last.arg, now) = None

\* C24: after set(key, r) at time now the store holds one entry for the
\* normalized key, with value r and storedAt = now, whether or not an entry
\* (valid or expired) was there; size grows by one only if the key was
\* absent, every other entry is unchanged, and the entry is valid for 24h
\* from now.
C24_SetOverwrites ==
    [][ last'.op = "set" =>
        LET k == Cache_normalizeCountyName(last'.arg)
            r == The(last'.ret)
        IN  /\ DOMAIN cache' = DOMAIN cache \cup {k}
            /\ cache'[k] = [data |-> r, timestamp |-> now]
            /\ \A j \in DOMAIN cache \ {k} : cache'[j] = cache[j]
            /\ Cardinality(DOMAIN cache') =
                  Cardinality(DOMAIN cache) + (IF k \in DOMAIN cache THEN 0 ELSE 1)
            /\ Cache_getValue(cache', last'.arg, now + CACHE_EXPIRY_TIME - 1) = Some(r)
            /\ Cache_getValue(cache', last'.arg, now + CACHE_EXPIRY_TIME) = None ]_vars

\* C24 witness: a set made after time has passed, beside an older entry that
\* is still in the store with its own timestamp
C24_Witness ==
    LET k == Cache_normalizeCountyName(last.arg) IN
    /\ last.op = "set"
    /\ cache[k].timestamp = now
    /\ Cache_size(cache) = 2
    /\ \E j \in DOMAIN cache : now - cache[j].timestamp >= CACHE_EXPIRY_TIME

\* The entries with the least and with the greatest storedAt
OldestKeys == { k \in DOMAIN cache : \A j \in DOMAIN cache : cache[k].timestamp <= cache[j].timestamp }
NewestKeys == { k \in DOMAIN cache : \A j \in DOMAIN cache : cache[k].timestamp >= cache[j].timestamp }

\* C25: on a non-empty store stats() returns size = the number of entries,
\* oldestEntryName = the record name of an entry with the least storedAt and
\* newestEntryName = the record name of an entry with the greatest storedAt,
\* also when every entry was stored at the instant of the call; on an empty
\* store it returns size 0, null, null, 0.
C25_Stats ==
    last.op = "stats" =>
        LET stats == The(last.ret) IN
        IF DOMAIN cache = {}
        THEN /\ stats.size = 0
             /\ stats.oldestEntry = None
             /\ stats.newestEntry = None
             /\ ~stats.totalSizePositive
        ELSE /\ stats.size = Cardinality(DOMAIN cache)
             /\ \E k \in OldestKeys : stats.oldestEntry = Some(cache[k].data.name)
             /\ \E k \in NewestKeys : stats.newestEntry = Some(cache[k].data.name)

\* The last step was a fetch that was a cache hit
FetchHit == last.op = "fetch" /\ IsSome(last.ret)

\* C26: after a fetch that was a cache hit, the surface has isError = false and
\* no error, also when the fetch before it ended in a network failure.
C26_NoStaleErrorOnHit == FetchHit => (~isError /\ error = None)

\* C27: once every request in flight has resolved, the exposed data (when not
\* null) and isFromCache describe the county of the most recently issued
\* call, whatever the order in which the responses arrived.
C27_LatestRequestWins ==
    InflightCount = 0 =>
        /\ ~isFromCache
        /\ IsSome(finalData) =>
              The(finalData) = RecordOf(getCountyInfo(normalizeCountyName(LatestCall)))

\* C28: in every state in which isFromCache is false, the orchestrator is
\* mounted and a request it issued has not resolved, the exposed isLoading is
\* true; the resolution of one of two overlapping requests does not clear it.
C28_LoadingTracksInflight ==
    (~isFromCache /\ mountedRef /\ InflightCount > 0) => Surface_isLoading

\* A fetch that has just started a network request
FetchStarted == last.op = "fetch" /\ last.net = 1

\* C29: in every state of the surface, isError is true exactly when error is
\* set to a non-empty message, and right after a fetch has started a network
\* request isError is false and error is unset.
C29_ErrorFlagAgrees ==
    /\ isError <=> (IsSome(error) /\ The(error) # "")
    /\ FetchStarted => (~isError /\ error = None)

\* C29 witness: a transport failure with an empty message has been delivered
\* and the surface shows the fallback message
C29_Witness ==
    /\ FailedRespond
    /\ The(The(last.resp).error) = ""
    /\ isError
    /\ error = Some("Request failed")

\* A fetch that has just raised for a name with no known code
FetchRaised == last.op = "fetch" /\ last.threw

\* C30: once a fetch has raised for an unknown name, the exposed data is null,
\* isFromCache is false and the fetch has written nothing; the render that
\* follows it writes nothing either.
C30_NoStaleRecordAfterUnknown ==
    [][ /\ (last'.op = "fetch" /\ last'.threw)
           => (finalData' = None /\ ~isFromCache' /\ last'.writes = 0)
        /\ (FetchRaised /\ last'.op = "render")
           => (last'.writes = 0 /\ cache' = cache) ]_vars

====
